---------------------------- MODULE Spec2Model ----------------------------
(***************************************************************************)
(* Model of src/main.py (EmojiLikePlugin): reaction selection              *)
(* (select_emoji_ids, _select_random, _select_by_emotion), the emotion     *)
(* mapping parser, the monitoring handler on_notice, the passive handler   *)
(* on_message and the command handler replyMessage with judge_emotion.     *)
(*                                                                         *)
(* on_notice and on_message are actions that run a whole invocation.       *)
(* replyMessage is a coroutine whose invocations run as tasks: one action  *)
(* per stretch of code between two awaits, so that the stretches of        *)
(* different invocations interleave as the event loop lets them.           *)
(*                                                                         *)
(* Python strings are sequences of one-character TLA+ strings.  A          *)
(* character outside ASCII is written as its code point, "u672A" for       *)
(* U+672A: the TLA+ lexer accepts ASCII only.  Configuration values that   *)
(* the code only compares for equality are atomic TLA+ strings.            *)
(***************************************************************************)
EXTENDS Integers, Sequences, FiniteSets, TLC

VARIABLES
    config,            \* self.config: key -> Unset | Set(value)
    emotions_mapping,  \* self.emotions_mapping, insertion-ordered: <<[key, pool]>>
    emotion_keywords,  \* self.emotion_keywords
    emoji_pool,        \* self.emoji_pool
    call,              \* the last handler invocation and its inputs
    trace,             \* collaborator calls and log lines of that invocation, in order
    log,               \* logger.info lines of that invocation
    sent,              \* context.send_message attempts of that invocation
    raised,            \* whether an exception escaped the handler
    selected,          \* the value returned by select_emoji_ids
    tasks,             \* the invocations of replyMessage: task -> its locals
    bot                \* what the tasks called and were answered, in order

vars == <<config, emotions_mapping, emotion_keywords, emoji_pool,
          call, trace, log, sent, raised, selected, tasks, bot>>

(***************************************************************************)
(* Bounds of the model.                                                    *)
(***************************************************************************)
MaxPush == 2        \* entries of push_list
MaxContent == 3     \* characters of a fetched message
MaxNeed == 3        \* the need argument of select_emoji_ids
MaxPoolIds == 2     \* ids of the global pool that the model enumerates
MaxMapping == 2     \* entries of the emotions_mapping configuration list

(***************************************************************************)
(* Python values whose type the code inspects.                             *)
(***************************************************************************)
PyNone == [t |-> "none", i |-> 0, s |-> <<>>]
PyInt(n) == [t |-> "int", i |-> n, s |-> <<>>]
PyStr(str) == [t |-> "str", i |-> 0, s |-> str]

\* a configuration entry: the key is missing (Unset, with a filler of the
\* value's type), or it is set to v
Unset(filler) == [set |-> FALSE, v |-> filler]
Set(x) == [set |-> TRUE, v |-> x]

\* self.config.get(key, default)
ConfigGet(key, default) == IF config[key].set THEN config[key].v ELSE default

Min(a, b) == IF a <= b THEN a ELSE b

Range(s) == {s[i] : i \in DOMAIN s}

Digits == <<"0", "1", "2", "3", "4", "5", "6", "7", "8", "9">>

IsDigits(s) == Len(s) > 0 /\ \A i \in DOMAIN s : s[i] \in Range(Digits)

DigitVal(c) == (CHOOSE i \in DOMAIN Digits : Digits[i] = c) - 1

RECURSIVE DecimalValue(_)
DecimalValue(s) ==
    IF s = <<>> THEN 0
    ELSE 10 * DecimalValue(SubSeq(s, 1, Len(s) - 1)) + DigitVal(s[Len(s)])

\* int(x): [ok, v].  None raises TypeError, a string that is not a decimal
\* numeral raises ValueError (strings here carry no sign and no blanks).
PyIntOf(x) ==
    CASE x.t = "int" -> [ok |-> TRUE, v |-> x.i]
      [] x.t = "str" -> IF IsDigits(x.s) THEN [ok |-> TRUE, v |-> DecimalValue(x.s)]
                        ELSE [ok |-> FALSE, v |-> 0]
      [] OTHER -> [ok |-> FALSE, v |-> 0]


(***************************************************************************)
(* String literals of on_notice.                                           *)
(***************************************************************************)
\* "napcat:GroupMessage:" of f"napcat:GroupMessage:{group_id}"
SID_PREFIX ==
    <<"n", "a", "p", "c", "a", "t", ":",
      "G", "r", "o", "u", "p", "M", "e", "s", "s", "a", "g", "e", ":">>

UNKNOWN == <<"u672A", "u77E5">>                                \* "未知"
UNKNOWN_GROUP == <<"u672A", "u77E5", "u7FA4", "u804A">>        \* "未知群聊"
UNKNOWN_CONTENT ==
    <<"u672A", "u77E5", "u6D88", "u606F", "u5185", "u5BB9">>   \* "未知消息内容"
ELLIPSIS == <<"u2026", "u2026">>                               \* "……"
FACE_OPEN == <<"[", "u8868", "u60C5">>                         \* "[表情"

\* values of unmonitor_emoji_like_strategy
UNMONITOR_IGNORE == "ignore"       \* "关闭监控取消贴表情事件"
UNMONITOR_LOG_ONLY == "log_only"   \* "在日志中推送"
UNMONITOR_FORWARD == "forward"     \* any other value of the option

\* values of operator_display_mode and group_display_mode
DISPLAY_ALL == "all"               \* "全部显示"
OP_NAME_ONLY == "op_name_only"     \* "仅显示昵称和群名片"
OP_ID_ONLY == "op_id_only"         \* "仅显示QQ号"
GROUP_NAME_ONLY == "group_name_only"   \* "仅显示群名"
GROUP_ID_ONLY == "group_id_only"       \* "仅显示群号"

ACTION_SET == "set"                \* "贴了一个"
ACTION_UNSET == "unset"            \* "撤回了贴表情"

(***************************************************************************)
(* on_notice, lines 212-252: the raw record and its normalisation.         *)
(* A raw record holds, per key the handler reads, the value of             *)
(* raw_event.get(key): PyNone for a missing emoji_id, "absent" for a       *)
(* missing set / is_add, <<>> for a missing likes list; likes holds each   *)
(* element's .get("emoji_id"); user_id, group_id and message_id hold       *)
(* str(raw_event.get(...)).                                                *)
(***************************************************************************)
\* raw_event.get(key, True) for the boolean keys set and is_add
FlagGet(flag, default) == IF flag = "absent" THEN default ELSE flag = "true"

\* Normalize with a fault: the last element of likes is taken, and set is
\* looked at before is_add
NormalizeLastLikeSetFirst(raw) ==
    IF ~raw.is_dict \/ raw.post_type # "notice"
    THEN [is_emoji_like |-> FALSE, emoji_id |-> PyNone, is_set |-> TRUE]
    ELSE IF raw.notice_type = "notify" /\ raw.sub_type = "emoji_like"
    THEN [is_emoji_like |-> TRUE,
          emoji_id |-> raw.emoji_id,
          is_set |-> FlagGet(raw.set, TRUE)]
    ELSE IF raw.notice_type = "group_msg_emoji_like"
    THEN [is_emoji_like |-> TRUE,
          emoji_id |-> IF raw.likes # <<>> THEN raw.likes[Len(raw.likes)]
                       ELSE raw.emoji_id,
          is_set |-> FlagGet(raw.set, FlagGet(raw.is_add, TRUE))]
    ELSE [is_emoji_like |-> FALSE, emoji_id |-> PyNone, is_set |-> TRUE]

\* lines 214-247: [is_emoji_like, emoji_id, is_set]
Normalize(raw) ==
    IF ~raw.is_dict \/ raw.post_type # "notice"
    THEN [is_emoji_like |-> FALSE, emoji_id |-> PyNone, is_set |-> TRUE]
    ELSE IF raw.notice_type = "notify" /\ raw.sub_type = "emoji_like"
    THEN [is_emoji_like |-> TRUE,
          emoji_id |-> raw.emoji_id,
          is_set |-> FlagGet(raw.set, TRUE)]
    ELSE IF raw.notice_type = "group_msg_emoji_like"
    THEN [is_emoji_like |-> TRUE,
          emoji_id |-> IF raw.likes # <<>> THEN raw.likes[1] ELSE raw.emoji_id,
          is_set |-> FlagGet(raw.is_add, FlagGet(raw.set, TRUE))]
    ELSE [is_emoji_like |-> FALSE, emoji_id |-> PyNone, is_set |-> TRUE]

(***************************************************************************)
(* on_notice, lines 256-279: removal policy, self switch, black/white list *)
(***************************************************************************)
\* UnmonitorStrategy with a fault: the option defaults to log-and-forward
UnmonitorStrategyForwardByDefault ==
    ConfigGet("unmonitor_emoji_like_strategy", UNMONITOR_FORWARD)

\* line 257: unmonitor_strategy
UnmonitorStrategy == ConfigGet("unmonitor_emoji_like_strategy", UNMONITOR_IGNORE)

\* DroppedByUnmonitor with a fault: the early return for a removal is missing
DroppedByUnmonitorNever(is_set) == FALSE

\* lines 258-259: the early return for a removal
DroppedByUnmonitor(is_set) == ~is_set /\ UnmonitorStrategy = UNMONITOR_IGNORE

\* LogOnly with a fault: the return after the log line is missing
LogOnlyNeverReturns(is_set) == FALSE

\* lines 358-359: the return after the log line for a removal
LogOnly(is_set) == ~is_set /\ UnmonitorStrategy = UNMONITOR_LOG_ONLY

\* line 263
IgnoredSelf(user_id, self_id) ==
    user_id = self_id /\ ~ConfigGet("monitor_self", FALSE)

\* line 274
InBlacklist(sid) == sid \in ConfigGet("blacklist", {})

\* line 277
NotInWhitelist(sid) ==
    ConfigGet("whitelist", {}) # {} /\ sid \notin ConfigGet("whitelist", {})

\* Filtered with a fault: a session of the white list is accepted before the
\* black list is looked at
FilteredWhitelistFirst(user_id, self_id, sid) ==
    IF IgnoredSelf(user_id, self_id) THEN TRUE
    ELSE IF sid \in ConfigGet("whitelist", {}) THEN FALSE
    ELSE IF InBlacklist(sid) THEN TRUE
    ELSE NotInWhitelist(sid)

\* lines 262-279, in the order of the code
Filtered(user_id, self_id, sid) ==
    IF IgnoredSelf(user_id, self_id) THEN TRUE
    ELSE IF InBlacklist(sid) THEN TRUE
    ELSE NotInWhitelist(sid)

(***************************************************************************)
(* on_notice, lines 281-348: metadata and content resolution, folding.     *)
(* env holds what the adapter answers: env.member, env.group and env.msg   *)
(* are the responses of get_group_member_info, get_group_info and get_msg  *)
(* (ok = FALSE: the call raises), env.send_fail the positions of push_list *)
(* whose send_message raises.                                              *)
(***************************************************************************)
\* ResolveOperator with a fault: the identity of the log line follows
\* operator_display_mode as the forwarded one does
ResolveOperatorLogFollowsPolicy(user_id, group_id, member) ==
    LET called == IsDigits(group_id) /\ IsDigits(user_id)
        nickname == IF member.nickname.t = "none" THEN UNKNOWN ELSE member.nickname.s
        card == IF member.card.t = "none" THEN <<>> ELSE member.card.s
        full_operator_name ==
            IF card # <<>> THEN nickname \o <<" ", "(">> \o card \o <<")">> ELSE nickname
        full_operator_info == full_operator_name \o <<" ", "(">> \o user_id \o <<")">>
        op_display_mode == ConfigGet("operator_display_mode", DISPLAY_ALL)
        placeholder == UNKNOWN \o <<" ", "(">> \o user_id \o <<")">>
        push_operator_info == IF op_display_mode = OP_NAME_ONLY THEN full_operator_name
                              ELSE IF op_display_mode = OP_ID_ONLY THEN user_id
                              ELSE full_operator_info
    IN  IF called /\ member.ok
        THEN [called |-> called, full |-> push_operator_info, push |-> push_operator_info]
        ELSE [called |-> called, full |-> placeholder, push |-> placeholder]

\* lines 283-301: [called, full, push]
ResolveOperator(user_id, group_id, member) ==
    LET called == IsDigits(group_id) /\ IsDigits(user_id)   \* int(...) of line 284
        nickname == IF member.nickname.t = "none" THEN UNKNOWN ELSE member.nickname.s
        card == IF member.card.t = "none" THEN <<>> ELSE member.card.s
        full_operator_name ==
            IF card # <<>> THEN nickname \o <<" ", "(">> \o card \o <<")">> ELSE nickname
        full_operator_info == full_operator_name \o <<" ", "(">> \o user_id \o <<")">>
        op_display_mode == ConfigGet("operator_display_mode", DISPLAY_ALL)
        placeholder == UNKNOWN \o <<" ", "(">> \o user_id \o <<")">>
    IN  IF called /\ member.ok
        THEN [called |-> called,
              full |-> full_operator_info,
              push |-> IF op_display_mode = OP_NAME_ONLY THEN full_operator_name
                       ELSE IF op_display_mode = OP_ID_ONLY THEN user_id
                       ELSE full_operator_info]
        ELSE [called |-> called, full |-> placeholder, push |-> placeholder]

\* ResolveGroup with a fault: after a failed fetch the forwarded identity
\* follows group_display_mode
ResolveGroupPolicyOnFailure(group_id, group) ==
    LET called == IsDigits(group_id)
        group_name == IF ~group.ok \/ group.group_name.t = "none" THEN UNKNOWN_GROUP
                      ELSE group.group_name.s
        quoted == <<"u201C">> \o group_name \o <<"u201D">>
        full_group_info == quoted \o <<" ", "(">> \o group_id \o <<")">>
        group_display_mode == ConfigGet("group_display_mode", DISPLAY_ALL)
        placeholder == <<"(">> \o group_id \o <<")">>
        push_group_info == IF group_display_mode = GROUP_NAME_ONLY THEN quoted
                           ELSE IF group_display_mode = GROUP_ID_ONLY THEN group_id
                           ELSE full_group_info
    IN  IF called /\ group.ok
        THEN [called |-> called, full |-> full_group_info, push |-> push_group_info]
        ELSE [called |-> called, full |-> placeholder,
              push |-> IF group_display_mode = GROUP_NAME_ONLY THEN quoted
                       ELSE placeholder]

\* lines 304-320: [called, full, push]
ResolveGroup(group_id, group) ==
    LET called == IsDigits(group_id)                        \* int(group_id) of line 305
        group_name == IF group.group_name.t = "none" THEN UNKNOWN_GROUP
                      ELSE group.group_name.s
        quoted == <<"u201C">> \o group_name \o <<"u201D">>
        full_group_info == quoted \o <<" ", "(">> \o group_id \o <<")">>
        group_display_mode == ConfigGet("group_display_mode", DISPLAY_ALL)
        placeholder == <<"(">> \o group_id \o <<")">>
    IN  IF called /\ group.ok
        THEN [called |-> called,
              full |-> full_group_info,
              push |-> IF group_display_mode = GROUP_NAME_ONLY THEN quoted
                       ELSE IF group_display_mode = GROUP_ID_ONLY THEN group_id
                       ELSE full_group_info]
        ELSE [called |-> called, full |-> placeholder, push |-> placeholder]

\* lines 330-336: [ok, s]; a segment that is not a mapping (bad) raises
RECURSIVE RenderSegs(_)
RenderSegs(segs) ==
    IF segs = <<>> THEN [ok |-> TRUE, s |-> <<>>]
    ELSE LET seg == segs[Len(segs)]
             head == RenderSegs(SubSeq(segs, 1, Len(segs) - 1))
             piece == IF seg.type = <<"t", "e", "x", "t">> THEN seg.text
                      ELSE IF seg.type = <<"f", "a", "c", "e">>
                      THEN FACE_OPEN \o seg.id \o <<"]">>
                      ELSE <<"[">> \o seg.type \o <<"]">>
         IN  IF ~head.ok \/ seg.bad THEN [ok |-> FALSE, s |-> <<>>]
             ELSE [ok |-> TRUE, s |-> head.s \o piece]

\* lines 323-339
ResolveContent(msg) ==
    IF ~msg.ok THEN UNKNOWN_CONTENT
    ELSE IF msg.kind = "str" THEN msg.s
    ELSE IF msg.kind = "list"
    THEN IF RenderSegs(msg.segs).ok THEN RenderSegs(msg.segs).s ELSE UNKNOWN_CONTENT
    ELSE <<>>

\* lines 342-344
FoldThreshold ==
    LET fold_threshold == ConfigGet("msg_fold_threshold", PyInt(0))
    IN  IF fold_threshold.t # "int" \/ fold_threshold.i <= 0 THEN 0 ELSE fold_threshold.i

\* lines 346-348: display_content
Fold(content) ==
    IF FoldThreshold > 0 /\ Len(content) > FoldThreshold
    THEN SubSeq(content, 1, FoldThreshold) \o ELLIPSIS
    ELSE content

(***************************************************************************)
(* on_notice, lines 362-403: the push list.                                *)
(***************************************************************************)
\* s.split(sep) for a one-character separator
RECURSIVE SplitOn(_, _)
SplitOn(s, sep) ==
    IF \A i \in DOMAIN s : s[i] # sep THEN <<s>>
    ELSE LET k == CHOOSE i \in DOMAIN s :
                      s[i] = sep /\ \A j \in 1..(i - 1) : s[j] # sep
         IN  <<SubSeq(s, 1, k - 1)>> \o SplitOn(SubSeq(s, k + 1, Len(s)), sep)

\* s.strip(): blanks are the only whitespace of the model's strings
RECURSIVE Strip(_)
Strip(s) ==
    IF s = <<>> THEN s
    ELSE IF s[1] = " " THEN Strip(Tail(s))
    ELSE IF s[Len(s)] = " " THEN Strip(SubSeq(s, 1, Len(s) - 1))
    ELSE s

\* MatchPushItem with a fault: the pattern's segments may be empty ([^:]*)
MatchPushItemEmptySegments(push_item) ==
    LET parts == SplitOn(push_item, ":")
        target_sid == parts[1] \o <<":">> \o parts[2] \o <<":">> \o parts[3]
    IN  IF Len(parts) < 3
        THEN [matched |-> FALSE, target_sid |-> <<>>,
              has_sources |-> FALSE, sources_part |-> <<>>]
        ELSE [matched |-> TRUE, target_sid |-> target_sid,
              has_sources |-> Len(parts) > 3,
              sources_part |-> SubSeq(push_item, Len(target_sid) + 2, Len(push_item))]

\* line 372: re.match(r'^((?:[^:]+:){2}[^:]+)(?::(.*))?$', push_item) on a
\* string without line breaks: three non-empty colon-free segments, then
\* either the end (group 2 is None) or a colon and the rest (group 2).
MatchPushItem(push_item) ==
    LET parts == SplitOn(push_item, ":")
        matched == Len(parts) >= 3 /\ \A i \in 1..3 : parts[i] # <<>>
        target_sid == parts[1] \o <<":">> \o parts[2] \o <<":">> \o parts[3]
    IN  IF ~matched
        THEN [matched |-> FALSE, target_sid |-> <<>>,
              has_sources |-> FALSE, sources_part |-> <<>>]
        ELSE [matched |-> TRUE, target_sid |-> target_sid,
              has_sources |-> Len(parts) > 3,
              sources_part |-> SubSeq(push_item, Len(target_sid) + 2, Len(push_item))]

\* line 387
SourceSids(sources_part) ==
    LET toks == SplitOn(sources_part, ",")
    IN  [i \in DOMAIN toks |-> Strip(toks[i])]

\* lines 380-393: should_push of a matched entry
ShouldPush(m, current_session_sid, group_id) ==
    IF ~m.has_sources \/ m.sources_part = <<>> THEN TRUE     \* not sources_part
    ELSE \/ current_session_sid \in Range(SourceSids(m.sources_part))
         \/ group_id \in Range(SourceSids(m.sources_part))

\* lines 364-403 from entry i on: [sent, raised].  Face(id=int(emoji_id)) of
\* line 398 stands outside the try: when int() raises, the handler ends there.
RECURSIVE PushFrom(_, _, _)
PushFrom(push_list, i, ctx) ==
    IF i > Len(push_list) THEN [sent |-> <<>>, raised |-> FALSE]
    ELSE LET m == MatchPushItem(push_list[i])
         IN  IF ~m.matched THEN PushFrom(push_list, i + 1, ctx)
             ELSE IF ~ShouldPush(m, ctx.current_session_sid, ctx.group_id)
             THEN PushFrom(push_list, i + 1, ctx)
             ELSE IF ~PyIntOf(ctx.emoji_id).ok
             THEN [sent |-> <<>>, raised |-> TRUE]
             ELSE LET rest == PushFrom(push_list, i + 1, ctx)
                      attempt == [item |-> i,
                                  target |-> m.target_sid,
                                  text |-> ctx.text,
                                  face |-> PyIntOf(ctx.emoji_id).v,
                                  ok |-> i \notin ctx.send_fail]
                  IN  [sent |-> <<attempt>> \o rest.sent, raised |-> rest.raised]

NoEffect == [trace |-> <<>>, log |-> <<>>, sent |-> <<>>, raised |-> FALSE]

\* on_notice, lines 210-403, for one raw record: what it calls, logs and
\* sends, and whether an exception escapes it.
on_notice(raw, self_id, env) ==
    LET ev == Normalize(raw)
        user_id == raw.user_id
        group_id == raw.group_id
        current_session_sid == SID_PREFIX \o group_id
        operator == ResolveOperator(user_id, group_id, env.member)
        group == ResolveGroup(group_id, env.group)
        content == ResolveContent(env.msg)
        display_content == Fold(content)
        action_text == IF ev.is_set THEN ACTION_SET ELSE ACTION_UNSET
        log_msg == [operator |-> operator.full,
                    group |-> group.full,
                    content |-> display_content,
                    action |-> action_text,
                    emoji |-> ev.emoji_id]
        fetches == (IF operator.called THEN <<"get_group_member_info">> ELSE <<>>)
                   \o (IF group.called THEN <<"get_group_info">> ELSE <<>>)
                   \o <<"get_msg">>
        pushed == PushFrom(ConfigGet("push_list", <<>>), 1,
                           [current_session_sid |-> current_session_sid,
                            group_id |-> group_id,
                            emoji_id |-> ev.emoji_id,
                            text |-> [operator |-> operator.push,
                                      group |-> group.push,
                                      content |-> display_content,
                                      action |-> action_text],
                            send_fail |-> env.send_fail])
    IN  IF ~ev.is_emoji_like THEN NoEffect
        ELSE IF DroppedByUnmonitor(ev.is_set) THEN NoEffect
        ELSE IF Filtered(user_id, self_id, current_session_sid) THEN NoEffect
        ELSE IF LogOnly(ev.is_set)
        THEN [trace |-> fetches \o <<"log">>,
              log |-> <<log_msg>>, sent |-> <<>>, raised |-> FALSE]
        ELSE [trace |-> fetches \o <<"log">>
                        \o [i \in DOMAIN pushed.sent |-> "send_message"],
              log |-> <<log_msg>>, sent |-> pushed.sent, raised |-> pushed.raised]

(***************************************************************************)
(* __init__ and parse_emotions_mapping_list, lines 29-58.                  *)
(***************************************************************************)
EMOJI_RANGE_START == 1
EMOJI_RANGE_END == 434

FULLWIDTH_COLON == "uFF1A"                                     \* "："

\* line 42, list(range(EMOJI_RANGE_START, EMOJI_RANGE_END)), of which the
\* model enumerates the first MaxPoolIds ids
EmojiPool ==
    [i \in 1..Min(MaxPoolIds, EMOJI_RANGE_END - EMOJI_RANGE_START) |->
        EMOJI_RANGE_START + i - 1]

\* values.split(): the non-empty blank-separated pieces
SplitBlank(s) ==
    LET pieces == SplitOn(s, " ")
    IN  SelectSeq(pieces, LAMBDA x : x # <<>>)

\* lines 54-55 for one item: [ok, key, pool]; ok = FALSE when the unpacking
\* of item.split("：", 1) or an int(...) raises
ParseItem(item) ==
    LET parts == SplitOn(item, FULLWIDTH_COLON)
        values == SubSeq(item, Len(parts[1]) + 2, Len(item))
        toks == SplitBlank(values)
    IN  IF Len(parts) < 2 \/ \E i \in DOMAIN toks : ~IsDigits(toks[i])
        THEN [ok |-> FALSE, key |-> <<>>, pool |-> <<>>]
        ELSE [ok |-> TRUE, key |-> Strip(parts[1]),
              pool |-> [i \in DOMAIN toks |-> DecimalValue(toks[i])]]

\* result[key] = pool on an insertion-ordered dict
DictSet(d, key, pool) ==
    IF \E i \in DOMAIN d : d[i].key = key
    THEN [i \in DOMAIN d |-> IF d[i].key = key THEN [key |-> key, pool |-> pool] ELSE d[i]]
    ELSE Append(d, [key |-> key, pool |-> pool])

\* lines 51-58
RECURSIVE parse_emotions_mapping_list(_)
parse_emotions_mapping_list(emotions_list) ==
    IF emotions_list = <<>> THEN <<>>
    ELSE LET result == parse_emotions_mapping_list(
                           SubSeq(emotions_list, 1, Len(emotions_list) - 1))
             item == ParseItem(emotions_list[Len(emotions_list)])
         IN  IF item.ok THEN DictSet(result, item.key, item.pool) ELSE result

(***************************************************************************)
(* select_emoji_ids, _select_random, _select_by_emotion, lines 60-100.     *)
(* A selection is the set of outcomes [raised, ids] the random module can  *)
(* produce.                                                                *)
(***************************************************************************)
\* random.sample(pool, k): k distinct positions of pool, in any order;
\* ValueError when k is negative or larger than the population
Sample(pool, k) ==
    IF k < 0 \/ k > Len(pool) THEN {[raised |-> TRUE, ids |-> <<>>]}
    ELSE {[raised |-> FALSE, ids |-> [i \in 1..k |-> pool[p[i]]]] :
            p \in {q \in [1..k -> DOMAIN pool] :
                     \A i, j \in 1..k : i # j => q[i] # q[j]}}

\* SampleSize with a fault: need is not capped by the size of the pool
SampleSizeUncapped(need, pool) == need

\* line 81: the k of random.sample
SampleSize(need, pool) == Min(need, Len(pool))

\* line 80-81
_select_random(need) == Sample(emoji_pool, SampleSize(need, emoji_pool))

\* line 92: keyword in emotion
IsSubstring(keyword, emotion) ==
    \E i \in 0..(Len(emotion) - Len(keyword)) :
        SubSeq(emotion, i + 1, i + Len(keyword)) = keyword

\* self.emotions_mapping.get(keyword)
MappingGet(keyword) ==
    IF \E i \in DOMAIN emotions_mapping : emotions_mapping[i].key = keyword
    THEN emotions_mapping[CHOOSE i \in DOMAIN emotions_mapping :
                              emotions_mapping[i].key = keyword].pool
    ELSE <<>>

\* SampleAndPad with a fault: the sample of the label's pool is not padded
SampleWithoutPad(pool, need) == Sample(pool, SampleSize(need, pool))

\* lines 95-98: the sample of the label's pool, padded with
\* random.choice(self.emoji_pool) up to need
SampleAndPad(pool, need) ==
    LET k == SampleSize(need, pool)
    IN  {[raised |-> FALSE, ids |-> s.ids \o pad] :
            s \in Sample(pool, k),
            pad \in [1..(need - k) -> Range(emoji_pool)]}

\* lines 91-100 from keyword i on
RECURSIVE SelectFromKeyword(_, _, _)
SelectFromKeyword(i, emotion, need) ==
    IF i > Len(emotion_keywords) THEN _select_random(need)
    ELSE IF IsSubstring(emotion_keywords[i], emotion)
            /\ MappingGet(emotion_keywords[i]) # <<>>
    THEN SampleAndPad(MappingGet(emotion_keywords[i]), need)
    ELSE SelectFromKeyword(i + 1, emotion, need)

\* lines 83-100; emotion is PyNone or PyStr(text)
_select_by_emotion(emotion, need) ==
    IF emotion.t = "none" \/ emotion.s = <<>> THEN _select_random(need)
    ELSE SelectFromKeyword(1, emotion.s, need)

\* lines 60-78
select_emoji_ids(emotion, need) ==
    LET strategy == ConfigGet("emoji_select_strategy", "random")
    IN  IF strategy = "random" THEN _select_random(need)
        ELSE IF strategy = "emotion_llm" THEN _select_by_emotion(emotion, need)
        ELSE _select_random(need)

\* the position in emotion_keywords of the keyword whose pool lines 91-98
\* sample, from keyword i on; 0 when the loop ends without one
RECURSIVE SampledKeyword(_, _)
SampledKeyword(i, emotion) ==
    IF i > Len(emotion_keywords) THEN 0
    ELSE IF IsSubstring(emotion_keywords[i], emotion)
            /\ MappingGet(emotion_keywords[i]) # <<>>
    THEN i
    ELSE SampledKeyword(i + 1, emotion)

\* PoolAfterPad with a fault: selected is the pool list itself, and the
\* appends of line 97 land in it
PoolAfterPadShared(pool, need, ids) ==
    pool \o SubSeq(ids, Min(need, Len(pool)) + 1, Len(ids))

\* lines 95-97: the label's pool list after the padding loop.  random.sample
\* returns a new list, the appends of line 97 go to that list
PoolAfterPad(pool, need, ids) == pool

\* self.emotions_mapping after select_emoji_ids(emotion=, need=) returned ids
\* (lines 60-100; _select_random, line 81, writes to no list of the plugin)
MappingAfterSelect(emotion, need, ids) ==
    LET k == IF ConfigGet("emoji_select_strategy", "random") = "emotion_llm"
                /\ emotion.t # "none" /\ emotion.s # <<>>
             THEN SampledKeyword(1, emotion.s)
             ELSE 0
    IN  [j \in DOMAIN emotions_mapping |->
            IF j = k /\ emotions_mapping[j].key = emotion_keywords[k]
            THEN [key |-> emotions_mapping[j].key,
                  pool |-> PoolAfterPad(emotions_mapping[j].pool, need, ids)]
            ELSE emotions_mapping[j]]

(***************************************************************************)
(* Construction and the handlers as actions.                               *)
(***************************************************************************)
\* a configuration that sets none of the options the model reads
NoConfig ==
    [unmonitor_emoji_like_strategy |-> Unset(""),
     monitor_self |-> Unset(FALSE),
     blacklist |-> Unset({}),
     whitelist |-> Unset({}),
     operator_display_mode |-> Unset(""),
     group_display_mode |-> Unset(""),
     msg_fold_threshold |-> Unset(PyNone),
     push_list |-> Unset(<<>>),
     emoji_select_strategy |-> Unset(""),
     emotions_mapping |-> Unset(<<>>),
     default_emoji_num |-> Unset(PyNone),
     emoji_follow |-> Unset(0),
     emoji_like_prob |-> Unset(0)]

Idle == [handler |-> "idle"]

\* the tasks that run replyMessage
Tasks == {"t1", "t2"}

\* what the provider of judge_emotion does: there is none (provider = FALSE),
\* text_chat raises (ok = FALSE), or it answers text
NoJudge == [provider |-> FALSE, ok |-> FALSE, text |-> <<>>]

\* a task that runs no invocation; pc is the await the task stands at
IdleTask ==
    [pc |-> "idle",
     arg |-> PyNone,                \* emojiNum as passed
     ev |-> [chain |-> "empty", reply_chain |-> "empty", text |-> <<>>, id |-> PyNone],
     env |-> [judge |-> NoJudge, apply_fail |-> {}],
     emojiNum |-> 0,
     need |-> 0,
     emotion |-> PyNone,
     emoji_ids |-> <<>>,
     i |-> 0,                       \* the position of the for loop of line 150
     stopped |-> FALSE]             \* event.stop_event() was called

\* lines 32-42: the state after __init__(context, cfg)
Construct(cfg) ==
    LET mapping == parse_emotions_mapping_list(
                       IF cfg["emotions_mapping"].set THEN cfg["emotions_mapping"].v
                       ELSE <<>>)
    IN  /\ config = cfg
        /\ emotions_mapping = mapping
        /\ emotion_keywords = [i \in DOMAIN mapping |-> mapping[i].key]
        /\ emoji_pool = EmojiPool
        /\ call = Idle
        /\ trace = <<>>
        /\ log = <<>>
        /\ sent = <<>>
        /\ raised = FALSE
        /\ selected = <<>>
        /\ tasks = [t \in Tasks |-> IdleTask]
        /\ bot = <<>>

\* event.message_obj.self_id, as str(...)
SelfId == <<"1", "0">>

\* one invocation of on_notice, lines 210-403, on a raw record of Raws with
\* the adapter answering as one of Envs
OnNotice(Raws, Envs) ==
    /\ call.handler = "idle"
    /\ \E raw \in Raws, env \in Envs :
          LET out == on_notice(raw, SelfId, env)
          IN  /\ call' = [handler |-> "on_notice", raw |-> raw, env |-> env]
              /\ trace' = out.trace
              /\ log' = out.log
              /\ sent' = out.sent
              /\ raised' = out.raised
    /\ UNCHANGED <<config, emotions_mapping, emotion_keywords, emoji_pool, selected,
                   tasks, bot>>

\* one call of select_emoji_ids(emotion=..., need=...), lines 60-78
SelectEmojiIds(Emotions, Needs) ==
    /\ call.handler = "idle"
    /\ \E emotion \in Emotions, need \in Needs :
          \E out \in select_emoji_ids(emotion, need) :
              /\ call' = [handler |-> "select_emoji_ids",
                          emotion |-> emotion, need |-> need]
              /\ selected' = out.ids
              /\ raised' = out.raised
              /\ emotions_mapping' = MappingAfterSelect(emotion, need, out.ids)
    /\ UNCHANGED <<config, emotion_keywords, emoji_pool, trace, log, sent, tasks, bot>>

\* the invocation is over: the framework awaits the next event
Return ==
    /\ call.handler # "idle"
    /\ call' = Idle
    /\ trace' = <<>>
    /\ log' = <<>>
    /\ sent' = <<>>
    /\ raised' = FALSE
    /\ selected' = <<>>
    /\ UNCHANGED <<config, emotions_mapping, emotion_keywords, emoji_pool, tasks, bot>>

(***************************************************************************)
(* Inputs of the monitoring flow.                                          *)
(***************************************************************************)
GidA == <<"1", "2", "3", "4", "5", "6", "7", "8">>
GidB == <<"9", "9", "9", "9", "9", "9", "9", "9">>
GidC == <<"5", "6", "5", "6", "5", "6", "5", "6">>
GidD == <<"7", "8", "7", "8", "7", "8", "7", "8">>
OtherId == <<"2", "0">>

SidOf(gid) == SID_PREFIX \o gid

\* a notify / emoji_like record (lines 232-235)
NotifyRaw(user_id, group_id, emoji_id, set) ==
    [is_dict |-> TRUE, post_type |-> "notice", notice_type |-> "notify",
     sub_type |-> "emoji_like", emoji_id |-> emoji_id, likes |-> <<>>,
     set |-> set, is_add |-> "absent",
     user_id |-> user_id, group_id |-> group_id, message_id |-> <<"7">>]

\* a group_msg_emoji_like record (lines 236-244)
GroupMsgRaw(user_id, group_id, emoji_id, likes, is_add, set) ==
    [is_dict |-> TRUE, post_type |-> "notice", notice_type |-> "group_msg_emoji_like",
     sub_type |-> "absent", emoji_id |-> emoji_id, likes |-> likes,
     set |-> set, is_add |-> is_add,
     user_id |-> user_id, group_id |-> group_id, message_id |-> <<"7">>]

\* records that are no reaction notice (lines 214, 223, 246)
OtherRaws ==
    {[NotifyRaw(OtherId, GidA, PyInt(76), "true") EXCEPT !.post_type = "message"],
     [NotifyRaw(OtherId, GidA, PyInt(76), "true") EXCEPT !.sub_type = "poke"],
     [NotifyRaw(OtherId, GidA, PyInt(76), "true") EXCEPT !.notice_type = "group_recall"],
     [NotifyRaw(OtherId, GidA, PyInt(76), "true") EXCEPT !.is_dict = FALSE]}

MemberOk == [ok |-> TRUE, nickname |-> PyStr(<<"A">>), card |-> PyStr(<<"c">>)]
MemberFail == [ok |-> FALSE, nickname |-> PyNone, card |-> PyNone]
GroupOk == [ok |-> TRUE, group_name |-> PyStr(<<"G">>)]
GroupFail == [ok |-> FALSE, group_name |-> PyNone]
MsgStr(s) == [ok |-> TRUE, kind |-> "str", s |-> s, segs |-> <<>>]
MsgList(segs) == [ok |-> TRUE, kind |-> "list", s |-> <<>>, segs |-> segs]
MsgFail == [ok |-> FALSE, kind |-> "str", s |-> <<>>, segs |-> <<>>]

\* the strings of length at most n over alphabet
StringsUpTo(alphabet, n) == UNION {[1..k -> alphabet] : k \in 0..n}

(***************************************************************************)
(* SpecRoute: the push list of on_notice over every list of at most        *)
(* MaxPush entries of PushItems.                                           *)
(***************************************************************************)
DestSid == SidOf(GidD)

PushItems ==
    {DestSid,                                                 \* no source list
     DestSid \o <<":">> \o GidC \o <<",">> \o GidA,           \* two bare ids
     DestSid \o <<":">>,                                      \* colon, no source
     SidOf(GidC) \o <<":">> \o SidOf(GidA),                   \* a full SessionId
     DestSid \o <<":", " ">> \o GidA,                         \* a blank before the id
     <<"n", "a", "p", "c", "a", "t", ":", "G">>,              \* two segments
     <<"n", ":", ":">> \o GidD,                               \* an empty segment
     DestSid \o <<":", "G", ":">> \o GidB \o <<",">> \o GidA, \* a two-segment source
     DestSid \o <<":", "n", ":">> \o SidOf(GidB) \o <<",">> \o GidB}  \* four segments

PushLists == UNION {[1..k -> PushItems] : k \in 0..MaxPush}

RouteConfigs ==
    {[NoConfig EXCEPT !["unmonitor_emoji_like_strategy"] = Set(UNMONITOR_FORWARD),
                      !["push_list"] = Set(pl)] : pl \in PushLists}

RouteRaws ==
    {NotifyRaw(OtherId, g, e, s) :
        g \in {GidA, GidB},
        e \in {PyNone, PyInt(76), PyStr(<<"7", "6">>), PyStr(<<"x">>)},
        s \in {"true", "false"}}
    \cup {GroupMsgRaw(OtherId, GidA, PyNone, likes, "true", "absent") :
            likes \in {<<>>, <<PyNone>>, <<PyInt(76)>>}}
    \cup OtherRaws

RouteEnvs ==
    {[member |-> MemberOk, group |-> GroupOk, msg |-> MsgStr(<<"h", "i">>),
      send_fail |-> f] : f \in SUBSET (1..MaxPush)}

InitRoute == \E cfg \in RouteConfigs : Construct(cfg)

OnNoticeRoute == OnNotice(RouteRaws, RouteEnvs)

NextRoute == OnNoticeRoute \/ Return

SpecRoute == InitRoute /\ [][NextRoute]_vars

(***************************************************************************)
(* Vocabulary of the properties.                                           *)
(***************************************************************************)
Notice == call.handler = "on_notice"

\* the canonical event of the handled record
Ev == Normalize(call.raw)
Cur == SidOf(call.raw.group_id)
PushList == ConfigGet("push_list", <<>>)

\* shouldMonitor with its checks in the order deny list, allow list, self
ShouldMonitor(sessionId, actorUserId, selfUserId, selfMonitoring, denyList, allowList) ==
    IF sessionId \in denyList THEN FALSE
    ELSE IF allowList # {} /\ sessionId \notin allowList THEN FALSE
    ELSE IF actorUserId = selfUserId /\ ~selfMonitoring THEN FALSE
    ELSE TRUE

PassesVisibility ==
    ShouldMonitor(Cur, call.raw.user_id, SelfId, ConfigGet("monitor_self", FALSE),
                  ConfigGet("blacklist", {}), ConfigGet("whitelist", {}))

Removal == Notice /\ Ev.is_emoji_like /\ ~Ev.is_set

StrategySetTo(s) ==
    /\ config["unmonitor_emoji_like_strategy"].set
    /\ config["unmonitor_emoji_like_strategy"].v = s

\* a reaction notice that the removal policy keeps and the filter passes
Monitored ==
    /\ Notice
    /\ Ev.is_emoji_like
    /\ ~(Removal /\ StrategySetTo(UNMONITOR_IGNORE))
    /\ PassesVisibility

\* a monitored event that the removal policy lets through to the push list
Forwardable == Monitored /\ ~(Removal /\ StrategySetTo(UNMONITOR_LOG_ONLY))

Logged == log # <<>>
Attempted(j) == \E a \in DOMAIN sent : sent[a].item = j
AttemptsOf(j) == Cardinality({a \in DOMAIN sent : sent[a].item = j})
Targets(s) == [a \in DOMAIN s |-> s[a].target]

\* the rule grammar: segment, source, sourceList, destination, entry
Segment(s) == s # <<>> /\ \A i \in DOMAIN s : s[i] \notin {":", ",", " "}

GrammarSource(tok) ==
    LET p == SplitOn(tok, ":")
    IN  Len(p) \in {1, 3} /\ \A i \in DOMAIN p : Segment(p[i])

\* the text after the destination and its colon
AfterDestination(item) ==
    LET p == SplitOn(item, ":")
    IN  SubSeq(item, Len(p[1]) + Len(p[2]) + Len(p[3]) + 4, Len(item))

GrammarEntry(item) ==
    LET p == SplitOn(item, ":")
    IN  /\ Len(p) >= 3
        /\ \A i \in 1..3 : Segment(p[i])
        /\ Len(p) > 3 =>
              LET toks == SplitOn(AfterDestination(item), ",")
              IN  \A t \in DOMAIN toks : GrammarSource(toks[t])

HasSourceList(item) == Len(SplitOn(item, ":")) > 3

\* cur or gid is literally one of the comma-separated source tokens
LiteralSourceMatch(item, cur, gid) ==
    LET toks == SplitOn(AfterDestination(item), ",")
    IN  \E t \in DOMAIN toks : toks[t] = cur \/ toks[t] = gid

\* the destination of the code's pattern: three non-empty colon-free segments
DestinationOk(item) ==
    LET p == SplitOn(item, ":")
    IN  Len(p) >= 3 /\ \A i \in 1..3 : p[i] # <<>>

\* the push loop on another list, for the handled event
PushOutcomeOn(push_list) ==
    PushFrom(push_list, 1,
             [current_session_sid |-> Cur,
              group_id |-> call.raw.group_id,
              emoji_id |-> Ev.emoji_id,
              text |-> <<>>,
              send_fail |-> {}])

\* the entry matches the handled event (code's pattern and source test)
EntryMatches(j) ==
    /\ MatchPushItem(PushList[j]).matched
    /\ ShouldPush(MatchPushItem(PushList[j]), Cur, call.raw.group_id)

(***************************************************************************)
(* Properties of the push list, under SpecRoute.                           *)
(***************************************************************************)
\* C5: for a monitored event, delivery is attempted exactly once for each
\* matching entry of push_list, whatever deliveries fail.
C5_EachMatchingEntryAttemptedOnce ==
    Forwardable => \A j \in DOMAIN PushList : EntryMatches(j) => AttemptsOf(j) = 1

\* C6: a notice whose reaction id is missing and that passes the filters is
\* handled without an exception, is logged, and is delivered to every
\* matching destination.
C6_MissingIdHandledGracefully ==
    (Forwardable /\ Ev.emoji_id = PyNone) =>
        /\ ~raised
        /\ Logged
        /\ \A j \in DOMAIN PushList : EntryMatches(j) => Attempted(j)

\* C7: for a well-formed entry and an event that passed the filter: without
\* a source list the destination is always attempted; with one, it is
\* attempted iff cur or gid literally equals a source token.
C7_MatchIffLiteralSource ==
    Forwardable =>
        \A j \in DOMAIN PushList :
            GrammarEntry(PushList[j]) =>
                (Attempted(j) <=>
                    (~HasSourceList(PushList[j])
                     \/ LiteralSourceMatch(PushList[j], Cur, call.raw.group_id)))

\* C8 as stated: only entries of the rule grammar are delivered, and the
\* handler behaves as if the other entries were not in push_list.
C8_OnlyGrammarEntriesDeliver ==
    Forwardable =>
        /\ \A a \in DOMAIN sent : GrammarEntry(PushList[sent[a].item])
        /\ Targets(sent) = Targets(PushOutcomeOn(SelectSeq(PushList, GrammarEntry)).sent)
        /\ raised = PushOutcomeOn(SelectSeq(PushList, GrammarEntry)).raised

\* C8 amended: only entries whose first three colon-separated segments are
\* non-empty are delivered (whatever follows the third segment's colon), and
\* the handler behaves as if the other entries were not in push_list.
C8_OnlyDestinationEntriesDeliver ==
    Forwardable =>
        /\ \A a \in DOMAIN sent : DestinationOk(PushList[sent[a].item])
        /\ Targets(sent) = Targets(PushOutcomeOn(SelectSeq(PushList, DestinationOk)).sent)
        /\ raised = PushOutcomeOn(SelectSeq(PushList, DestinationOk)).raised

\* C8 witness: a malformed entry was skipped and a later entry delivered
C8_Witness ==
    /\ Forwardable
    /\ Len(PushList) = 2
    /\ ~DestinationOk(PushList[1])
    /\ Attempted(2)

(***************************************************************************)
(* SpecNotice: the removal policy and the visibility filter of on_notice   *)
(* over every combination of the options they read.                        *)
(***************************************************************************)
NoticeConfigs ==
    {[NoConfig EXCEPT !["unmonitor_emoji_like_strategy"] = u,
                      !["monitor_self"] = m,
                      !["blacklist"] = b,
                      !["whitelist"] = w,
                      !["push_list"] = p] :
        u \in {Unset(""), Set(UNMONITOR_IGNORE), Set(UNMONITOR_LOG_ONLY),
               Set(UNMONITOR_FORWARD)},
        m \in {Unset(FALSE), Set(FALSE), Set(TRUE)},
        b \in {Unset({}), Set({SidOf(GidA)})},
        w \in {Unset({}), Set({}), Set({SidOf(GidA)}), Set({SidOf(GidB)})},
        p \in {Unset(<<>>),
               Set(<<DestSid>>),
               Set(<<DestSid \o <<":">> \o GidC \o <<",">> \o GidA, SidOf(GidC)>>)}}

NoticeRaws ==
    {NotifyRaw(u, g, e, s) :
        u \in {SelfId, OtherId}, g \in {GidA, GidB},
        e \in {PyNone, PyInt(76)}, s \in {"absent", "true", "false"}}
    \cup {GroupMsgRaw(u, GidA, PyNone, <<PyInt(76)>>, a, s) :
            u \in {SelfId, OtherId},
            a \in {"absent", "true", "false"}, s \in {"absent", "false"}}
    \cup OtherRaws

NoticeEnvs ==
    {[member |-> MemberOk, group |-> GroupOk, msg |-> MsgStr(<<"h", "i">>),
      send_fail |-> f] : f \in {{}, {1}}}
    \cup {[member |-> MemberFail, group |-> GroupFail, msg |-> MsgFail,
           send_fail |-> {}]}

InitNotice == \E cfg \in NoticeConfigs : Construct(cfg)

OnNoticeFilter == OnNotice(NoticeRaws, NoticeEnvs)

NextNotice == OnNoticeFilter \/ Return

SpecNotice == InitNotice /\ [][NextNotice]_vars

\* the handled record with its removal flag turned into an add
AsAdd(raw) == [raw EXCEPT !.set = "true", !.is_add = "true"]

\* the handler's outcome on the same record as an add event
AddOutcome == on_notice(AsAdd(call.raw), SelfId, call.env)

\* C1: a removal under ignore-entirely leaves no log line, no adapter call
\* and no delivery; under log-only it is logged when it passes the
\* visibility filter and is never delivered, whatever push_list holds.
C1_RemovalPolicy ==
    /\ (Removal /\ StrategySetTo(UNMONITOR_IGNORE)) => (log = <<>> /\ sent = <<>>)
    /\ (Removal /\ StrategySetTo(UNMONITOR_LOG_ONLY)) =>
          /\ sent = <<>>
          /\ PassesVisibility => Logged

\* C1 witness: a removal under log-only was logged with a catch-all entry
\* in push_list and nothing was sent
C1_Witness ==
    /\ Removal
    /\ StrategySetTo(UNMONITOR_LOG_ONLY)
    /\ Logged
    /\ PushList = <<DestSid>>
    /\ sent = <<>>

C4_OnlyMonitoredVisible ==
    /\ (Notice /\ (Logged \/ sent # <<>>)) => PassesVisibility
    /\ (Notice /\ Ev.is_emoji_like /\ ~(Removal /\ UnmonitorStrategy = UNMONITOR_IGNORE))
          => (Logged <=> PassesVisibility)

\* C4 witness: the session is in the deny list and in the allow list, and
\* an add event of it was rejected
C4_Witness ==
    /\ Notice
    /\ Ev.is_emoji_like
    /\ Ev.is_set
    /\ Cur \in ConfigGet("blacklist", {})
    /\ Cur \in ConfigGet("whitelist", {})
    /\ ~Logged
    /\ sent = <<>>

(***************************************************************************)
(* SpecFold: content resolution and folding of on_notice over every        *)
(* message of at most MaxContent characters and every threshold up to      *)
(* MaxContent.                                                             *)
(***************************************************************************)
TextSeg(s) == [type |-> <<"t", "e", "x", "t">>, text |-> s, id |-> <<>>, bad |-> FALSE]
FaceSeg(id) == [type |-> <<"f", "a", "c", "e">>, text |-> <<>>, id |-> id, bad |-> FALSE]
ImageSeg == [type |-> <<"i", "m", "g">>, text |-> <<>>, id |-> <<>>, bad |-> FALSE]
BadSeg == [type |-> <<>>, text |-> <<>>, id |-> <<>>, bad |-> TRUE]

FoldMsgs ==
    {MsgStr(s) : s \in StringsUpTo({"a", "b"}, MaxContent)}
    \cup {MsgList(segs) :
            segs \in {<<>>, <<TextSeg(<<"a", "b">>)>>, <<FaceSeg(<<"5">>)>>,
                      <<TextSeg(<<"a">>), ImageSeg>>, <<TextSeg(<<"a">>), BadSeg>>}}
    \cup {MsgFail, [ok |-> TRUE, kind |-> "none", s |-> <<>>, segs |-> <<>>]}

FoldConfigs ==
    {[NoConfig EXCEPT !["unmonitor_emoji_like_strategy"] = u,
                      !["msg_fold_threshold"] = t,
                      !["push_list"] = Set(<<DestSid>>)] :
        u \in {Set(UNMONITOR_LOG_ONLY), Set(UNMONITOR_FORWARD)},
        t \in {Unset(PyNone), Set(PyInt(-1)), Set(PyStr(<<"2">>))}
              \cup {Set(PyInt(n)) : n \in 0..MaxContent}}

FoldRaws == {NotifyRaw(OtherId, GidA, PyInt(76), s) : s \in {"true", "false"}}

FoldEnvs ==
    {[member |-> MemberOk, group |-> GroupOk, msg |-> m, send_fail |-> {}] :
        m \in FoldMsgs}

InitFold == \E cfg \in FoldConfigs : Construct(cfg)

OnNoticeFold == OnNotice(FoldRaws, FoldEnvs)

NextFold == OnNoticeFold \/ Return

SpecFold == InitFold /\ [][NextFold]_vars

\* the resolved content of the reacted message, before folding
Content == ResolveContent(call.env.msg)

\* C3: with a positive threshold T and content longer than T the forwarded
\* text holds the first T characters and the ellipsis while the log line
\* holds the full content; otherwise both hold the full content.
C3_LogUnfoldedPushFolded ==
    Monitored =>
        /\ \A l \in DOMAIN log :
              log[l].content = Content
        /\ \A a \in DOMAIN sent :
              sent[a].text.content =
                  IF FoldThreshold > 0 /\ Len(Content) > FoldThreshold
                  THEN SubSeq(Content, 1, FoldThreshold) \o ELLIPSIS
                  ELSE Content

(***************************************************************************)
(* SpecSelect: select_emoji_ids over every emotions_mapping list of at     *)
(* most MaxMapping items of MappingItems, every strategy, the emotions of  *)
(* Emotions and every need of 1..MaxNeed.                                  *)
(***************************************************************************)
KAI == "u5F00"                                                 \* "开"
XIN == "u5FC3"                                                 \* "心"
NU == "u6012"                                                  \* "怒"

MappingItems ==
    {<<KAI, XIN, FULLWIDTH_COLON, "1", " ", "2">>,             \* "开心：1 2"
     <<KAI, XIN, FULLWIDTH_COLON, "1", " ", "1">>,             \* "开心：1 1"
     <<KAI, XIN, FULLWIDTH_COLON>>,                            \* "开心："
     <<" ", NU, FULLWIDTH_COLON, "5", "0", "0">>,              \* " 怒：500"
     <<KAI, FULLWIDTH_COLON, "2", " ", "5", "0", "0">>,        \* "开：2 500"
     <<NU, " ", "1">>,                                         \* "怒 1"
     <<NU, FULLWIDTH_COLON, "x">>}                             \* "怒：x"

SelectConfigs ==
    {[NoConfig EXCEPT !["emoji_select_strategy"] = st,
                      !["emotions_mapping"] = Set(ml)] :
        st \in {Unset(""), Set("random"), Set("emotion_llm"), Set("weighted")},
        ml \in UNION {[1..k -> MappingItems] : k \in 0..MaxMapping}}

Emotions ==
    {PyNone, PyStr(<<>>),
     PyStr(<<KAI, XIN>>),                                      \* "开心"
     PyStr(<<"x", KAI, XIN, "y", NU>>),                        \* both labels inside
     PyStr(<<NU>>),                                            \* "怒"
     PyStr(<<"o">>)}                                           \* no label inside

InitSelect == \E cfg \in SelectConfigs : Construct(cfg)

SelectAny == SelectEmojiIds(Emotions, 1..MaxNeed)

NextSelect == SelectAny \/ Return

SpecSelect == InitSelect /\ [][NextSelect]_vars

Selecting == call.handler = "select_emoji_ids"

NoDuplicates(s) == \A i, j \in DOMAIN s : i # j => s[i] # s[j]

Strategy == ConfigGet("emoji_select_strategy", "random")

AbsentEmotion == call.emotion.t = "none" \/ call.emotion.s = <<>>

\* the positions of EmotionMap whose key occurs in the emotion text
MatchingLabels ==
    {i \in DOMAIN emotions_mapping : IsSubstring(emotions_mapping[i].key, call.emotion.s)}

\* random selection is due: the strategy is not emotion_llm, or the emotion
\* is absent, or no label occurs in it
RandomDue ==
    /\ Selecting
    /\ Strategy # "emotion_llm" \/ AbsentEmotion \/ MatchingLabels = {}

\* C9: random selection returns min(need, poolSize) pairwise distinct ids
\* of the global pool [EMOJI_RANGE_START, EMOJI_RANGE_END) and never raises.
C9_RandomSelection ==
    RandomDue =>
        /\ ~raised
        /\ Len(selected) = Min(call.need, Len(emoji_pool))
        /\ NoDuplicates(selected)
        /\ \A i \in DOMAIN selected :
              /\ selected[i] \in Range(emoji_pool)
              /\ selected[i] \in EMOJI_RANGE_START..(EMOJI_RANGE_END - 1)

\* C9 witness: an unknown strategy name, a need above the size of the pool,
\* and the whole pool returned
C9_Witness ==
    /\ Selecting
    /\ Strategy = "weighted"
    /\ call.need > Len(emoji_pool)
    /\ ~raised
    /\ Len(selected) = Len(emoji_pool)

\* the ids of positions 1..k of s are those of k distinct positions of pool
DrawnWithoutReplacement(s, k, pool) ==
    \E p \in [1..k -> DOMAIN pool] :
        /\ \A i, j \in 1..k : i # j => p[i] # p[j]
        /\ \A i \in 1..k : s[i] = pool[p[i]]

\* the selection is need ids: first min(need, |pool|) ids of pool, then ids
\* of the global pool
LabelSelection(pool, distinctPrefix) ==
    LET k == Min(call.need, Len(pool))
    IN  /\ ~raised
        /\ Len(selected) = call.need
        /\ \A i \in 1..k : selected[i] \in Range(pool)
        /\ distinctPrefix => NoDuplicates(SubSeq(selected, 1, k))
        /\ DrawnWithoutReplacement(selected, k, pool)
        /\ \A i \in (k + 1)..call.need : selected[i] \in Range(emoji_pool)

LabelDue == Selecting /\ Strategy = "emotion_llm" /\ ~AbsentEmotion

\* C10 as stated, for the needs that the global pool can serve: the matching
\* label is the first key, in insertion order, that occurs in the emotion
\* text; the selection is need ids, the first min(need, labelPoolSize) from
\* the label's pool without duplicates, the others from the global pool.
C10_FirstSubstringLabel ==
    (LabelDue /\ MatchingLabels # {} /\ call.need <= Len(emoji_pool)) =>
        LET first == CHOOSE i \in MatchingLabels : \A j \in MatchingLabels : i <= j
        IN  LabelSelection(emotions_mapping[first].pool, TRUE)

\* the positions of EmotionMap whose key occurs in the emotion text and
\* whose pool is not empty
UsableLabels == {i \in MatchingLabels : emotions_mapping[i].pool # <<>>}

\* C10 amended: the matching label is the first key, in insertion order,
\* that occurs in the emotion text and has a non-empty pool; the selection
\* is need ids, the first min(need, labelPoolSize) drawn from distinct
\* positions of the label's pool, the others from the global pool.  When
\* every label in the text has an empty pool the selection is the random
\* one: min(need, poolSize) distinct ids of the global pool.
C10_FirstUsableLabel ==
    /\ (LabelDue /\ UsableLabels # {}) =>
          LET first == CHOOSE i \in UsableLabels : \A j \in UsableLabels : i <= j
          IN  LabelSelection(emotions_mapping[first].pool, FALSE)
    /\ (LabelDue /\ MatchingLabels # {} /\ UsableLabels = {}) =>
          /\ ~raised
          /\ Len(selected) = Min(call.need, Len(emoji_pool))
          /\ NoDuplicates(selected)
          /\ \A i \in DOMAIN selected : selected[i] \in Range(emoji_pool)

\* C10 witness: the first label in the text has an empty pool, a later one
\* a pool smaller than need, and need ids came back
C10_Witness ==
    /\ LabelDue
    /\ UsableLabels # {}
    /\ UsableLabels # MatchingLabels
    /\ \E i \in MatchingLabels \ UsableLabels : \A j \in UsableLabels : i < j
    /\ \A j \in UsableLabels : Len(emotions_mapping[j].pool) < call.need
    /\ Len(selected) = call.need

(***************************************************************************)
(* The order of on_notice, under SpecNotice.                               *)
(***************************************************************************)
FetchNames == {"get_group_member_info", "get_group_info", "get_msg"}

\* the number of entries of trace that are op
CountOf(op) == Cardinality({i \in DOMAIN trace : trace[i] = op})

\* the event is dropped by the removal policy or rejected by the filter
DroppedOrRejected ==
    \/ ~Ev.is_emoji_like
    \/ (Removal /\ UnmonitorStrategy = UNMONITOR_IGNORE)
    \/ ~PassesVisibility

\* C15: a notice that is no reaction notice, is dropped by the removal
\* policy or is rejected by the visibility filter issues no fetch, no log
\* line and no delivery; for any other notice the fetches (member, group,
\* message, in this order) all precede the one log line, and the log line
\* precedes every delivery attempt.
C15_FixedOrder ==
    Notice =>
        /\ DroppedOrRejected => trace = <<>>
        /\ ~DroppedOrRejected =>
              /\ CountOf("log") = 1
              /\ CountOf("get_msg") = 1
              /\ CountOf("get_group_member_info") <= 1
              /\ CountOf("get_group_info") <= 1
        /\ CountOf("send_message") = Len(sent)
        /\ \A i, j \in DOMAIN trace :
              /\ (trace[i] \in FetchNames /\ trace[j] = "log") => i < j
              /\ (trace[i] = "log" /\ trace[j] = "send_message") => i < j
              /\ (trace[i] = "get_group_member_info" /\ trace[j] # trace[i]) => i < j
              /\ (trace[i] = "get_group_info" /\ trace[j] = "get_msg") => i < j

\* C15 witness: an event went through every stage, from the member fetch to
\* a delivery
C15_Witness ==
    /\ Forwardable
    /\ trace = <<"get_group_member_info", "get_group_info", "get_msg",
                 "log", "send_message">>

(***************************************************************************)
(* SpecDisplay: metadata resolution of on_notice over every combination of *)
(* the two display options and of the outcomes of the three fetches.       *)
(***************************************************************************)
OperatorModes ==
    {Unset(""), Set(DISPLAY_ALL), Set(OP_NAME_ONLY), Set(OP_ID_ONLY), Set("other")}

GroupModes ==
    {Unset(""), Set(DISPLAY_ALL), Set(GROUP_NAME_ONLY), Set(GROUP_ID_ONLY), Set("other")}

DisplayConfigs ==
    {[NoConfig EXCEPT !["unmonitor_emoji_like_strategy"] = Set(UNMONITOR_FORWARD),
                      !["operator_display_mode"] = om,
                      !["group_display_mode"] = gm,
                      !["push_list"] = Set(pl)] :
        om \in OperatorModes, gm \in GroupModes,
        pl \in {<<DestSid>>,
                <<DestSid \o <<":">> \o GidB, SidOf(GidC)>>}}

\* str(None), the group_id of a record without the key
NONE_TEXT == <<"N", "o", "n", "e">>

DisplayRaws ==
    {NotifyRaw(OtherId, g, e, s) :
        g \in {GidA, NONE_TEXT}, e \in {PyInt(76), PyNone}, s \in {"true", "false"}}

DisplayMembers ==
    {MemberOk, MemberFail,
     [ok |-> TRUE, nickname |-> PyStr(<<"A">>), card |-> PyStr(<<>>)],
     [ok |-> TRUE, nickname |-> PyNone, card |-> PyNone]}

DisplayGroups == {GroupOk, GroupFail, [ok |-> TRUE, group_name |-> PyNone]}

DisplayEnvs ==
    {[member |-> m, group |-> g, msg |-> c, send_fail |-> f] :
        m \in DisplayMembers, g \in DisplayGroups,
        c \in {MsgStr(<<"h", "i">>), MsgFail}, f \in {{}, {1}}}

InitDisplay == \E cfg \in DisplayConfigs : Construct(cfg)

OnNoticeDisplay == OnNotice(DisplayRaws, DisplayEnvs)

NextDisplay == OnNoticeDisplay \/ Return

SpecDisplay == InitDisplay /\ [][NextDisplay]_vars

\* the fetch did not answer: the adapter call raised, or an id of its
\* arguments is no decimal numeral
MemberFetchFailed ==
    \/ ~call.env.member.ok
    \/ ~IsDigits(call.raw.group_id)
    \/ ~IsDigits(call.raw.user_id)

GroupFetchFailed == ~call.env.group.ok \/ ~IsDigits(call.raw.group_id)

MessageFetchFailed == ~call.env.msg.ok

\* the outcome of the handler on the same record when every fetch answers
AllFetchedOutcome ==
    on_notice(call.raw, SelfId,
              [call.env EXCEPT !.member = MemberOk, !.group = GroupOk,
                               !.msg = MsgStr(<<"h", "i">>)])

Items(s) == [a \in DOMAIN s |-> s[a].item]

OperatorPlaceholder == UNKNOWN \o <<" ", "(">> \o call.raw.user_id \o <<")">>
GroupPlaceholder == <<"(">> \o call.raw.group_id \o <<")">>

\* C14: whatever fetches fail, a monitored event is logged, and it is
\* delivered to the entries it is delivered to when every fetch answers
\* (with a reaction id that int() accepts: to every matching entry); after a
\* failed member (group) fetch the log line and every forwarded text carry
\* the same placeholder, which holds the raw user id (group id), under every
\* display option.
C14_FetchFailureKeepsEvent ==
    Monitored =>
        /\ Logged
        /\ Items(sent) = Items(AllFetchedOutcome.sent)
        /\ raised = AllFetchedOutcome.raised
        /\ (Forwardable /\ PyIntOf(Ev.emoji_id).ok) =>
              \A j \in DOMAIN PushList : EntryMatches(j) => Attempted(j)
        /\ MemberFetchFailed =>
              /\ IsSubstring(call.raw.user_id, OperatorPlaceholder)
              /\ \A l \in DOMAIN log : log[l].operator = OperatorPlaceholder
              /\ \A a \in DOMAIN sent : sent[a].text.operator = OperatorPlaceholder
        /\ GroupFetchFailed =>
              /\ IsSubstring(call.raw.group_id, GroupPlaceholder)
              /\ \A l \in DOMAIN log : log[l].group = GroupPlaceholder
              /\ \A a \in DOMAIN sent : sent[a].text.group = GroupPlaceholder
        /\ MessageFetchFailed =>
              /\ \A l \in DOMAIN log : log[l].content = UNKNOWN_CONTENT
              /\ \A a \in DOMAIN sent : sent[a].text.content = UNKNOWN_CONTENT

\* C14 witness: the three fetches failed under the name-only options, and
\* the event was logged and a delivery attempted
C14_Witness ==
    /\ Forwardable
    /\ ~call.env.member.ok /\ ~call.env.group.ok /\ ~call.env.msg.ok
    /\ ConfigGet("operator_display_mode", DISPLAY_ALL) = OP_NAME_ONLY
    /\ ConfigGet("group_display_mode", DISPLAY_ALL) = GROUP_NAME_ONLY
    /\ Logged
    /\ sent # <<>>

\* the identities of the handled event, from what the adapter answered
OperatorName ==
    LET m == call.env.member
        nickname == IF m.nickname.t = "none" THEN UNKNOWN ELSE m.nickname.s
    IN  IF m.card.t = "none" \/ m.card.s = <<>> THEN nickname
        ELSE nickname \o <<" ", "(">> \o m.card.s \o <<")">>

OperatorFull == OperatorName \o <<" ", "(">> \o call.raw.user_id \o <<")">>

GroupName ==
    LET g == call.env.group
    IN  <<"u201C">>
        \o (IF g.group_name.t = "none" THEN UNKNOWN_GROUP ELSE g.group_name.s)
        \o <<"u201D">>

GroupFull == GroupName \o <<" ", "(">> \o call.raw.group_id \o <<")">>

\* C17: when the member (group) fetch answered, the log line carries the
\* full operator (group) identity under every value of the display options,
\* and the forwarded text carries the name without the id under name-only,
\* the id alone under id-only, and the full identity under any other value.
C17_DisplayPolicyOnlyInForward ==
    Monitored =>
        /\ ~MemberFetchFailed =>
              /\ \A l \in DOMAIN log : log[l].operator = OperatorFull
              /\ \A a \in DOMAIN sent :
                    sent[a].text.operator =
                        CASE ConfigGet("operator_display_mode", DISPLAY_ALL) = OP_NAME_ONLY
                                -> OperatorName
                          [] ConfigGet("operator_display_mode", DISPLAY_ALL) = OP_ID_ONLY
                                -> call.raw.user_id
                          [] OTHER -> OperatorFull
        /\ ~GroupFetchFailed =>
              /\ \A l \in DOMAIN log : log[l].group = GroupFull
              /\ \A a \in DOMAIN sent :
                    sent[a].text.group =
                        CASE ConfigGet("group_display_mode", DISPLAY_ALL) = GROUP_NAME_ONLY
                                -> GroupName
                          [] ConfigGet("group_display_mode", DISPLAY_ALL) = GROUP_ID_ONLY
                                -> call.raw.group_id
                          [] OTHER -> GroupFull

\* C17 witness: under id-only for the operator and name-only for the group
\* the log line carries the full identities and a forwarded text does not
C17_Witness ==
    /\ Forwardable
    /\ ~MemberFetchFailed /\ ~GroupFetchFailed
    /\ ConfigGet("operator_display_mode", DISPLAY_ALL) = OP_ID_ONLY
    /\ ConfigGet("group_display_mode", DISPLAY_ALL) = GROUP_NAME_ONLY
    /\ Logged
    /\ sent # <<>>
    /\ log[1].operator = OperatorFull
    /\ sent[1].text.operator = call.raw.user_id
    /\ sent[1].text.group = GroupName

(***************************************************************************)
(* SpecNormalize: the normalisation of on_notice over records of both      *)
(* reaction notice kinds and records that are no reaction notice.          *)
(***************************************************************************)
NormalizeConfigs ==
    {[NoConfig EXCEPT !["unmonitor_emoji_like_strategy"] = u,
                      !["push_list"] = Set(<<DestSid>>)] :
        u \in {Unset(""), Set(UNMONITOR_IGNORE), Set(UNMONITOR_LOG_ONLY),
               Set(UNMONITOR_FORWARD)}}

LikesLists ==
    {<<>>, <<PyInt(76)>>, <<PyInt(76), PyInt(77)>>, <<PyNone, PyInt(77)>>}

NormalizeRaws ==
    {GroupMsgRaw(OtherId, GidA, e, likes, a, s) :
        e \in {PyNone, PyInt(5)}, likes \in LikesLists,
        a \in {"absent", "true", "false"}, s \in {"absent", "true", "false"}}
    \cup {[NotifyRaw(OtherId, GidA, e, s) EXCEPT !.likes = likes, !.is_add = a] :
            e \in {PyNone, PyInt(5)}, s \in {"absent", "true", "false"},
            likes \in {<<>>, <<PyInt(76)>>}, a \in {"absent", "false"}}
    \cup OtherRaws
    \cup {[GroupMsgRaw(OtherId, GidA, PyInt(5), <<PyInt(76)>>, "true", "true")
              EXCEPT !.post_type = p] : p \in {"message", "meta_event", "absent"}}
    \cup {[NotifyRaw(OtherId, GidA, PyInt(5), "true") EXCEPT !.sub_type = "absent"],
          [NotifyRaw(OtherId, GidA, PyInt(5), "true") EXCEPT !.notice_type = "absent"]}

NormalizeEnvs ==
    {[member |-> MemberOk, group |-> GroupOk, msg |-> MsgStr(<<"h", "i">>),
      send_fail |-> {}]}

InitNormalize == \E cfg \in NormalizeConfigs : Construct(cfg)

OnNoticeNormalize == OnNotice(NormalizeRaws, NormalizeEnvs)

NextNormalize == OnNoticeNormalize \/ Return

SpecNormalize == InitNormalize /\ [][NextNormalize]_vars

\* the handled record is a reaction notice of either kind
ReactionNotice ==
    /\ call.raw.is_dict
    /\ call.raw.post_type = "notice"
    /\ \/ call.raw.notice_type = "notify" /\ call.raw.sub_type = "emoji_like"
       \/ call.raw.notice_type = "group_msg_emoji_like"

GroupMsgNotice == ReactionNotice /\ call.raw.notice_type = "group_msg_emoji_like"

\* the reaction id and isAdd of a group_msg_emoji_like record
LikesReactionId ==
    IF Len(call.raw.likes) >= 1 THEN Head(call.raw.likes) ELSE call.raw.emoji_id

LikesIsAdd ==
    IF call.raw.is_add # "absent" THEN call.raw.is_add = "true"
    ELSE IF call.raw.set # "absent" THEN call.raw.set = "true"
    ELSE TRUE

\* C18: a record that is no reaction notice leaves no log line, no fetch and
\* no delivery; a group_msg_emoji_like record is handled with the reaction
\* id of the first element of likes when likes is not empty, else with the
\* top-level id, and with isAdd = is_add, else set, else true: the removal
\* policy, the log line and the forwarded face follow these values.
C18_Normalization ==
    Notice =>
        /\ ~ReactionNotice =>
              (trace = <<>> /\ log = <<>> /\ sent = <<>> /\ ~raised)
        /\ GroupMsgNotice =>
              /\ Logged <=> (LikesIsAdd \/ UnmonitorStrategy # UNMONITOR_IGNORE)
              /\ \A l \in DOMAIN log :
                    /\ log[l].emoji = LikesReactionId
                    /\ log[l].action = IF LikesIsAdd THEN ACTION_SET ELSE ACTION_UNSET
              /\ \A a \in DOMAIN sent :
                    /\ PyInt(sent[a].face) = LikesReactionId
                    /\ sent[a].text.action =
                           IF LikesIsAdd THEN ACTION_SET ELSE ACTION_UNSET
              /\ sent # <<>> => (LikesIsAdd \/ UnmonitorStrategy = UNMONITOR_FORWARD)

\* C18 witness: likes holds two elements and differs from the top-level id,
\* is_add is absent and set is false, and the removal was forwarded with the
\* id of the first element
C18_Witness ==
    /\ Notice
    /\ GroupMsgNotice
    /\ Len(call.raw.likes) = 2
    /\ call.raw.emoji_id = PyInt(5)
    /\ call.raw.is_add = "absent"
    /\ call.raw.set = "false"
    /\ Len(sent) = 1
    /\ sent[1].face = 76
    /\ log[1].action = ACTION_UNSET

(***************************************************************************)
(* judge_emotion, lines 405-435, and replyMessage, lines 103-158.          *)
(***************************************************************************)
OTHER_LABEL == <<"u5176", "u4ED6">>                            \* "其他"

\* the hard maximum of line 142
MAX_EMOJI_NUM == 20

\* bool(x) is False
Falsy(x) ==
    \/ x.t = "none"
    \/ x.t = "int" /\ x.i = 0
    \/ x.t = "str" /\ x.s = <<>>

\* lines 422-435: the returned label
judge_emotion(judge) ==
    IF ~judge.provider THEN OTHER_LABEL
    ELSE IF ~judge.ok THEN OTHER_LABEL
    ELSE Strip(judge.text)

\* lines 109-111: default_num
DefaultNum ==
    LET default_num == ConfigGet("default_emoji_num", PyInt(1))
    IN  IF default_num.t # "int" \/ default_num.i <= 0 THEN 1 ELSE default_num.i

\* lines 113-121: emojiNum
EmojiNum(arg) ==
    IF arg.t = "none" THEN DefaultNum
    ELSE IF ~PyIntOf(arg).ok THEN 1
    ELSE IF PyIntOf(arg).v <= 0 THEN 1
    ELSE PyIntOf(arg).v

\* Need with a fault: the hard maximum is not applied
NeedUncapped(emojiNum) == emojiNum

\* line 142: need
Need(emojiNum) == Min(emojiNum, MAX_EMOJI_NUM)

\* EarlyReturn with a fault: the text of the replied-to message is not
\* looked at
EarlyReturnIgnoresText(ev) ==
    \/ ev.chain = "empty"
    \/ ev.chain # "reply"
    \/ ev.reply_chain = "empty"
    \/ Falsy(ev.id)

\* lines 123-136: the returns before the selection.  ev.chain tells whether
\* event.get_messages() is empty, starts with a Reply or with another
\* segment; ev.reply_chain, ev.text and ev.id are reply.chain, reply.text
\* and reply.id
EarlyReturn(ev) ==
    \/ ev.chain = "empty"
    \/ ev.chain # "reply"
    \/ ev.reply_chain = "empty"
    \/ ev.text = <<>>
    \/ Falsy(ev.id)

\* EmojiIdAt with a fault: the loop runs over emoji_ids from its end
EmojiIdFromEnd(emoji_ids, i) == emoji_ids[Len(emoji_ids) + 1 - i]

\* line 150: the emoji_id of the i-th round of the for loop
EmojiIdAt(emoji_ids, i) == emoji_ids[i]

\* an entry of bot: task t called op (text_chat, set_msg_emoji_like,
\* stop_event), or was answered (returned, raised, slept)
BotEvent(t, op, i, emoji_id) == [task |-> t, op |-> op, i |-> i, emoji_id |-> emoji_id]

\* lines 142-151 and 158 for task t with locals rec, once emotion is known:
\* the selection, then the first set_msg_emoji_like call, or stop_event when
\* nothing was selected
SelectAndApply(t, rec, emotion) ==
    LET need == Need(rec.emojiNum)
    IN  \E out \in select_emoji_ids(emotion, need) :
            LET sel == [rec EXCEPT !.emotion = emotion, !.need = need,
                                   !.emoji_ids = out.ids]
            IN  /\ emotions_mapping' = MappingAfterSelect(emotion, need, out.ids)
                /\ IF out.raised
                   THEN /\ tasks' = [tasks EXCEPT ![t] = [sel EXCEPT !.pc = "raised"]]
                        /\ bot' = bot
                   ELSE IF out.ids = <<>>
                   THEN /\ tasks' = [tasks EXCEPT ![t] =
                                        [sel EXCEPT !.pc = "done", !.stopped = TRUE]]
                        /\ bot' = Append(bot, BotEvent(t, "stop_event", 0, 0))
                   ELSE /\ tasks' = [tasks EXCEPT ![t] =
                                        [sel EXCEPT !.pc = "set_msg_emoji_like", !.i = 1]]
                        /\ bot' = Append(bot, BotEvent(t, "set_msg_emoji_like", 1,
                                                       EmojiIdAt(out.ids, 1)))

\* replyMessage, lines 103-151, from its invocation to its first await (or
\* to its return): the count, the early returns, then text_chat of
\* judge_emotion when the strategy is emotion_llm and there is a provider,
\* else the selection and the first set_msg_emoji_like
ReplyMessage(t, Args, Events, Envs) ==
    /\ tasks[t].pc = "idle"
    /\ \E arg \in Args, ev \in Events, env \in Envs :
          LET rec == [IdleTask EXCEPT !.arg = arg, !.ev = ev, !.env = env,
                                      !.emojiNum = EmojiNum(arg)]
              llm == ConfigGet("emoji_select_strategy", "") = "emotion_llm"
          IN  IF EarlyReturn(ev)
              THEN /\ tasks' = [tasks EXCEPT ![t] = [rec EXCEPT !.pc = "done"]]
                   /\ UNCHANGED <<bot, emotions_mapping>>
              ELSE IF llm /\ env.judge.provider
              THEN /\ tasks' = [tasks EXCEPT ![t] = [rec EXCEPT !.pc = "text_chat"]]
                   /\ bot' = Append(bot, BotEvent(t, "text_chat", 0, 0))
                   /\ UNCHANGED emotions_mapping
              ELSE SelectAndApply(t, rec,
                                  IF llm THEN PyStr(judge_emotion(env.judge)) ELSE PyNone)
    /\ UNCHANGED <<config, emotion_keywords, emoji_pool,
                   call, trace, log, sent, raised, selected>>

\* lines 427-435 and 142-151: text_chat answers or raises, judge_emotion
\* returns a label, and the task goes on to the selection
TextChatReturns(t) ==
    /\ tasks[t].pc = "text_chat"
    /\ SelectAndApply(t, tasks[t], PyStr(judge_emotion(tasks[t].env.judge)))
    /\ UNCHANGED <<config, emotion_keywords, emoji_pool,
                   call, trace, log, sent, raised, selected>>

\* lines 151-156: set_msg_emoji_like of round i answers, and the task goes
\* to sleep; or it raises, and no handler of replyMessage catches it
SetMsgEmojiLikeReturns(t) ==
    /\ tasks[t].pc = "set_msg_emoji_like"
    /\ IF tasks[t].i \in tasks[t].env.apply_fail
       THEN /\ tasks' = [tasks EXCEPT ![t].pc = "raised"]
            /\ bot' = Append(bot, BotEvent(t, "raised", tasks[t].i, 0))
       ELSE /\ tasks' = [tasks EXCEPT ![t].pc = "sleep"]
            /\ bot' = Append(bot, BotEvent(t, "returned", tasks[t].i, 0))
    /\ UNCHANGED <<config, emotions_mapping, emotion_keywords, emoji_pool,
                   call, trace, log, sent, raised, selected>>

\* lines 156, 150-151 and 158: the sleep of round i is over; the next round
\* calls set_msg_emoji_like, and after the last round stop_event is called
SleepReturns(t) ==
    /\ tasks[t].pc = "sleep"
    /\ LET i == tasks[t].i
           slept == Append(bot, BotEvent(t, "slept", i, 0))
       IN  IF i < Len(tasks[t].emoji_ids)
           THEN /\ tasks' = [tasks EXCEPT ![t].pc = "set_msg_emoji_like", ![t].i = i + 1]
                /\ bot' = Append(slept,
                                 BotEvent(t, "set_msg_emoji_like", i + 1,
                                          EmojiIdAt(tasks[t].emoji_ids, i + 1)))
           ELSE /\ tasks' = [tasks EXCEPT ![t].pc = "done", ![t].stopped = TRUE]
                /\ bot' = Append(slept, BotEvent(t, "stop_event", 0, 0))
    /\ UNCHANGED <<config, emotions_mapping, emotion_keywords, emoji_pool,
                   call, trace, log, sent, raised, selected>>

\* the invocation of task t is over (it returned or raised): the task is
\* free for the next command, and its entries leave bot
ReplyReturn(t) ==
    /\ tasks[t].pc \in {"done", "raised"}
    /\ tasks' = [tasks EXCEPT ![t] = IdleTask]
    /\ bot' = SelectSeq(bot, LAMBDA e : e.task # t)
    /\ UNCHANGED <<config, emotions_mapping, emotion_keywords, emoji_pool,
                   call, trace, log, sent, raised, selected>>

(***************************************************************************)
(* SpecCommand: one task runs the command over every count argument,       *)
(* every value of default_emoji_num, every shape of the invoking message   *)
(* and every outcome of text_chat and set_msg_emoji_like.  Under           *)
(* emotion_llm with a label pool the counts stay within MaxNeed: a padded  *)
(* selection of n ids has |emoji_pool|^(n - |label pool|) outcomes.        *)
(***************************************************************************)
DefaultNums ==
    {Unset(PyNone), Set(PyInt(0)), Set(PyInt(-2)), Set(PyInt(2)), Set(PyInt(25)),
     Set(PyStr(<<"3">>))}

LabelItem == <<KAI, XIN, FULLWIDTH_COLON, "1">>                \* "开心：1"

CommandConfigs ==
    {[NoConfig EXCEPT !["emoji_select_strategy"] = st,
                      !["default_emoji_num"] = d] :
        st \in {Unset(""), Set("random"), Set("emotion_llm"), Set("weighted")},
        d \in DefaultNums}
    \cup {[NoConfig EXCEPT !["emoji_select_strategy"] = Set("emotion_llm"),
                           !["emotions_mapping"] = Set(<<LabelItem>>),
                           !["default_emoji_num"] = d] :
            d \in {Unset(PyNone), Set(PyInt(2))}}

CommandArgs ==
    IF emotions_mapping = <<>>
    THEN {PyNone, PyInt(-1), PyInt(0), PyInt(1), PyInt(2), PyInt(20), PyInt(21),
          PyStr(<<"3">>), PyStr(<<"x">>)}
    ELSE {PyNone, PyStr(<<"x">>)} \cup {PyInt(n) : n \in 0..MaxNeed}

\* the invoking message: no segment, a first segment that is no Reply, a
\* Reply without chain, an image-only Reply, a Reply without id, a Reply to
\* a text message
ReplyTo(reply_chain, text, id) ==
    [chain |-> "reply", reply_chain |-> reply_chain, text |-> text, id |-> id]

CommandEvents ==
    {[chain |-> "empty", reply_chain |-> "empty", text |-> <<>>, id |-> PyNone],
     [chain |-> "plain", reply_chain |-> "empty", text |-> <<>>, id |-> PyNone],
     ReplyTo("empty", <<>>, PyInt(7)),
     ReplyTo("image", <<>>, PyInt(7)),
     ReplyTo("plain", <<"h", "i">>, PyNone),
     ReplyTo("plain", <<"h", "i">>, PyInt(0)),
     ReplyTo("plain", <<"h", "i">>, PyStr(<<>>)),
     ReplyTo("plain", <<"h", "i">>, PyInt(7)),
     ReplyTo("image", <<"h", "i">>, PyStr(<<"7">>))}

Judges ==
    {NoJudge,
     [provider |-> TRUE, ok |-> FALSE, text |-> <<>>],
     [provider |-> TRUE, ok |-> TRUE, text |-> <<" ", KAI, XIN, " ">>],
     [provider |-> TRUE, ok |-> TRUE, text |-> OTHER_LABEL]}

CommandEnvs ==
    {[judge |-> j, apply_fail |-> f] : j \in Judges, f \in {{}, {1}, {2}}}

InitCommand == \E cfg \in CommandConfigs : Construct(cfg)

ReplyCommand == ReplyMessage("t1", CommandArgs, CommandEvents, CommandEnvs)

NextCommand ==
    \/ ReplyCommand
    \/ TextChatReturns("t1")
    \/ SetMsgEmojiLikeReturns("t1")
    \/ SleepReturns("t1")
    \/ ReplyReturn("t1")

SpecCommand == InitCommand /\ [][NextCommand]_vars

(***************************************************************************)
(* Properties of the command, under SpecCommand.                           *)
(***************************************************************************)
Invoked(t) == tasks[t].pc # "idle"

\* the entries of bot of task t
BotOf(t) == SelectSeq(bot, LAMBDA e : e.task = t)

\* the number of entries op of task t
Calls(t, op) == Cardinality({j \in DOMAIN bot : bot[j].task = t /\ bot[j].op = op})

\* the selection of task t has run
Selected(t) == tasks[t].pc \in {"set_msg_emoji_like", "sleep", "raised"} \/ tasks[t].stopped

PositiveInteger(x) == PyIntOf(x).ok /\ PyIntOf(x).v > 0

\* the requested count of the invocation of task t
RequestedCount(t) ==
    LET arg == tasks[t].arg
        default == config["default_emoji_num"]
    IN  IF arg.t # "none"
        THEN IF PositiveInteger(arg) THEN PyIntOf(arg).v ELSE 1
        ELSE IF default.set /\ default.v.t = "int" /\ default.v.i > 0 THEN default.v.i
        ELSE 1

\* the invocation is no reply to an existing message
NotAReply(t) == tasks[t].ev.chain # "reply" \/ Falsy(tasks[t].ev.id)

\* C11: the requested count is the argument when it is a positive integer,
\* 1 when it is invalid or not positive, and default_emoji_num (1 when that
\* is no positive integer) when it is omitted; the selection is asked for
\* min(requested, 20) ids and set_msg_emoji_like is called at most that
\* often; it is not called when the invocation is no reply.
C11_CountClamped ==
    \A t \in Tasks :
        Invoked(t) =>
            /\ tasks[t].emojiNum = RequestedCount(t)
            /\ Selected(t) => tasks[t].need = Min(RequestedCount(t), MAX_EMOJI_NUM)
            /\ Len(tasks[t].emoji_ids) <= Min(RequestedCount(t), MAX_EMOJI_NUM)
            /\ Calls(t, "set_msg_emoji_like") <= Min(RequestedCount(t), MAX_EMOJI_NUM)
            /\ Calls(t, "set_msg_emoji_like") <= MAX_EMOJI_NUM
            /\ NotAReply(t) => Calls(t, "set_msg_emoji_like") = 0

\* C11 witness: the argument is above the hard maximum, the selection was
\* asked for 20 ids, and the command ran to its end
C11_Witness ==
    /\ tasks["t1"].arg = PyInt(21)
    /\ tasks["t1"].need = MAX_EMOJI_NUM
    /\ tasks["t1"].stopped
    /\ Calls("t1", "set_msg_emoji_like") = Len(tasks["t1"].emoji_ids)
    /\ Calls("t1", "set_msg_emoji_like") >= 1

\* C12: in the command, a failure of set_msg_emoji_like or of text_chat is
\* caught: no call is repeated, no exception leaves replyMessage, and an
\* invocation that went past the early returns ends with stop_event called.
C12_CommandFailuresCaught ==
    \A t \in Tasks :
        /\ tasks[t].pc # "raised"
        /\ (tasks[t].pc = "done" /\ ~EarlyReturn(tasks[t].ev)) => tasks[t].stopped
        /\ Calls(t, "text_chat") <= 1
        /\ \A j, k \in DOMAIN bot :
              (/\ bot[j].task = t /\ bot[k].task = t
               /\ bot[j].op = "set_msg_emoji_like" /\ bot[k].op = "set_msg_emoji_like"
               /\ bot[j].i = bot[k].i) => j = k

\* the invocation of task t is one of the early cases
EarlyCase(t) ==
    LET ev == tasks[t].ev
    IN  \/ ev.chain = "empty"
        \/ ev.chain = "plain"
        \/ ev.chain = "reply" /\ ev.reply_chain = "empty"
        \/ ev.chain = "reply" /\ ev.text = <<>>
        \/ ev.chain = "reply" /\ Falsy(ev.id)

\* C20: an invocation whose chain is empty, whose first segment is no
\* Reply, or whose replied-to message has an empty chain, no text or no id
\* returns with no text_chat call, no set_msg_emoji_like call and without
\* stop_event.
C20_EarlyReturns ==
    \A t \in Tasks :
        (Invoked(t) /\ EarlyCase(t)) =>
            /\ tasks[t].pc = "done"
            /\ ~tasks[t].stopped
            /\ BotOf(t) = <<>>
            /\ tasks[t].emoji_ids = <<>>

\* C20 witness: a reply to an image-only message under emotion_llm with a
\* provider returned without a call
C20_Witness ==
    /\ tasks["t1"].pc = "done"
    /\ tasks["t1"].ev = ReplyTo("image", <<>>, PyInt(7))
    /\ tasks["t1"].env.judge.provider
    /\ ConfigGet("emoji_select_strategy", "") = "emotion_llm"
    /\ ~tasks["t1"].stopped
    /\ bot = <<>>

(***************************************************************************)
(* on_message, lines 161-207.  An event holds whether get_messages() is    *)
(* empty, get_message_str(), is_at_or_wake_command, the ids of the Face    *)
(* segments of the chain, and the two values of random.random(), in        *)
(* hundredths as emoji_follow and emoji_like_prob are; env tells which     *)
(* set_msg_emoji_like call raises and what the provider does.              *)
(***************************************************************************)
\* ContinuesAfterFollow with a fault: a failed follow call ends the handler
EndsAfterFailedFollow(follow_ok) == follow_ok

\* lines 178-188: the except clause logs the failure, and the handler goes
\* on to line 188 whether or not the follow call raised
ContinuesAfterFollow(follow_ok) == TRUE

\* one invocation of on_message on an event of Events, the adapter and the
\* provider answering as one of Envs
OnMessage(Events, Envs) ==
    /\ call.handler = "idle"
    /\ \E ev \in Events, env \in Envs :
          LET returns_early == ev.chain_empty \/ ev.message_str = <<>> \/ ev.wake
              follows == /\ ~returns_early
                         /\ ev.faces # <<>>
                         /\ ev.r_follow < ConfigGet("emoji_follow", 0)
              goes_on == /\ ~returns_early
                         /\ ContinuesAfterFollow(~follows \/ ~env.follow_fail)
              likes == goes_on /\ ev.r_like < ConfigGet("emoji_like_prob", 0)
              llm == ConfigGet("emoji_select_strategy", "") = "emotion_llm"
              emotion == IF llm THEN PyStr(judge_emotion(env.judge)) ELSE PyNone
          IN  \E face \in (IF follows THEN Range(ev.faces) ELSE {0}),
                 out \in (IF likes THEN select_emoji_ids(emotion, 1)
                          ELSE {[raised |-> FALSE, ids |-> <<>>]}) :
                  /\ call' = [handler |-> "on_message", ev |-> ev, env |-> env,
                              face |-> face]
                  /\ trace' =
                        (IF follows
                         THEN <<IF env.follow_fail THEN "follow_raised" ELSE "follow">>
                         ELSE <<>>)
                        \o (IF likes /\ llm /\ env.judge.provider
                            THEN <<"text_chat">> ELSE <<>>)
                        \o (IF likes THEN <<"select_emoji_ids">> ELSE <<>>)
                        \o (IF likes /\ ~out.raised /\ out.ids # <<>>
                            THEN <<IF env.like_fail THEN "like_raised" ELSE "like">>
                            ELSE <<>>)
                  /\ selected' = out.ids
                  /\ raised' = out.raised
                  /\ emotions_mapping' =
                        IF likes THEN MappingAfterSelect(emotion, 1, out.ids)
                        ELSE emotions_mapping
    /\ UNCHANGED <<config, emotion_keywords, emoji_pool, log, sent, tasks, bot>>

(***************************************************************************)
(* SpecPassive: on_message over the probabilities 0, 0.5 and 1, random     *)
(* values 0, 0.5 and 0.99, chains with up to two faces, and every outcome  *)
(* of the two set_msg_emoji_like calls and of text_chat.                   *)
(***************************************************************************)
Probabilities == {Unset(0), Set(0), Set(50), Set(100)}

PassiveConfigs ==
    {[NoConfig EXCEPT !["emoji_follow"] = f,
                      !["emoji_like_prob"] = l,
                      !["emoji_select_strategy"] = st,
                      !["emotions_mapping"] = Set(<<LabelItem>>)] :
        f \in Probabilities, l \in Probabilities,
        st \in {Unset(""), Set("emotion_llm")}}

GroupMessage(faces, r_follow, r_like) ==
    [chain_empty |-> FALSE, message_str |-> <<"h", "i">>, wake |-> FALSE,
     faces |-> faces, r_follow |-> r_follow, r_like |-> r_like]

PassiveEvents ==
    {GroupMessage(faces, rf, rl) :
        faces \in {<<>>, <<5>>, <<5, 6>>}, rf \in {0, 50, 99}, rl \in {0, 50, 99}}
    \cup {[GroupMessage(<<>>, 0, 0) EXCEPT !.chain_empty = TRUE, !.message_str = <<>>],
          [GroupMessage(<<5>>, 0, 0) EXCEPT !.message_str = <<>>],
          [GroupMessage(<<5>>, 0, 0) EXCEPT !.wake = TRUE]}

PassiveEnvs ==
    {[follow_fail |-> ff, like_fail |-> lf, judge |-> j] :
        ff \in BOOLEAN, lf \in BOOLEAN, j \in Judges}

InitPassive == \E cfg \in PassiveConfigs : Construct(cfg)

NextPassive == OnMessage(PassiveEvents, PassiveEnvs) \/ Return

SpecPassive == InitPassive /\ [][NextPassive]_vars

Passive == call.handler = "on_message"

\* the message is one the passive flow looks at
PassiveDue ==
    /\ Passive
    /\ ~call.ev.chain_empty
    /\ call.ev.message_str # <<>>
    /\ ~call.ev.wake

InTrace(op) == \E i \in DOMAIN trace : trace[i] = op

FollowAttempted == InTrace("follow") \/ InTrace("follow_raised")
FreshAttempted == InTrace("like") \/ InTrace("like_raised")

\* C13: for a message the passive flow looks at, the follow call is made
\* exactly when the message carries a face and the first random value is
\* below emoji_follow; the fresh reaction is selected and its call made
\* exactly when the second random value is below emoji_like_prob, whether
\* the follow call was made, answered or raised; no exception leaves
\* on_message.
C13_FollowAndFreshIndependent ==
    /\ Passive => ~raised
    /\ (Passive /\ ~PassiveDue) => trace = <<>>
    /\ PassiveDue =>
          /\ FollowAttempted <=>
                (call.ev.faces # <<>> /\ call.ev.r_follow < ConfigGet("emoji_follow", 0))
          /\ InTrace("select_emoji_ids") <=>
                call.ev.r_like < ConfigGet("emoji_like_prob", 0)
          /\ FreshAttempted <=> call.ev.r_like < ConfigGet("emoji_like_prob", 0)
          /\ InTrace("follow_raised") <=> (FollowAttempted /\ call.env.follow_fail)
          /\ InTrace("like_raised") <=> (FreshAttempted /\ call.env.like_fail)
          /\ \A i, j \in DOMAIN trace :
                (trace[i] \in {"follow", "follow_raised"}
                 /\ trace[j] \notin {"follow", "follow_raised"}) => i < j

\* C13 witness: the follow call raised, text_chat raised, the fresh call
\* raised, and the handler returned
C13_Witness ==
    /\ PassiveDue
    /\ ~call.env.judge.ok
    /\ trace = <<"follow_raised", "text_chat", "select_emoji_ids", "like_raised">>
    /\ ~raised

(***************************************************************************)
(* SpecShared: two tasks run the command while on_message and on_notice    *)
(* are invoked, in every interleaving the awaits allow, under emotion_llm  *)
(* with a label pool smaller than the count (the selection is padded) and  *)
(* under the random strategy.                                              *)
(***************************************************************************)
SharedConfigs ==
    {[NoConfig EXCEPT !["emoji_select_strategy"] = st,
                      !["emotions_mapping"] = Set(<<LabelItem>>),
                      !["unmonitor_emoji_like_strategy"] = Set(UNMONITOR_FORWARD),
                      !["push_list"] = Set(<<DestSid>>),
                      !["emoji_follow"] = Set(100),
                      !["emoji_like_prob"] = Set(100)] :
        st \in {Set("random"), Set("emotion_llm")}}

SharedJudge == [provider |-> TRUE, ok |-> TRUE, text |-> <<KAI, XIN>>]

SharedEnvs == {[judge |-> SharedJudge, apply_fail |-> f] : f \in {{}, {2}}}

InitShared == \E cfg \in SharedConfigs : Construct(cfg)

NextShared ==
    \/ \E t \in Tasks :
          \/ ReplyMessage(t, {PyInt(2)}, {ReplyTo("plain", <<"h", "i">>, PyInt(7))},
                          SharedEnvs)
          \/ TextChatReturns(t)
          \/ SetMsgEmojiLikeReturns(t)
          \/ SleepReturns(t)
          \/ ReplyReturn(t)
    \/ OnMessage({GroupMessage(<<5>>, 0, 0)},
                 {[follow_fail |-> FALSE, like_fail |-> FALSE, judge |-> SharedJudge]})
    \/ OnNotice({NotifyRaw(OtherId, GidA, PyInt(76), "true")},
                {[member |-> MemberOk, group |-> GroupOk, msg |-> MsgStr(<<"h", "i">>),
                  send_fail |-> {}]})
    \/ Return

SpecShared == InitShared /\ [][NextShared]_vars

\* C16: for every task, the i-th set_msg_emoji_like call carries the i-th
\* selected id and is made only after the (i-1)-th call returned and its
\* sleep ended, whatever the other task and the other handlers do in
\* between; stop_event is called last, after every selected id was applied.
C16_SequentialApply ==
    \A t \in Tasks :
        LET evs == BotOf(t)
        IN  /\ \A j \in DOMAIN evs :
                  /\ evs[j].op = "set_msg_emoji_like" =>
                        /\ evs[j].i \in DOMAIN tasks[t].emoji_ids
                        /\ evs[j].emoji_id = tasks[t].emoji_ids[evs[j].i]
                        /\ evs[j].i = 1 + Cardinality({k \in 1..(j - 1) :
                                                        evs[k].op = "set_msg_emoji_like"})
                        /\ evs[j].i > 1 =>
                              /\ j > 2
                              /\ evs[j - 1].op = "slept"
                              /\ evs[j - 1].i = evs[j].i - 1
                              /\ evs[j - 2].op = "returned"
                              /\ evs[j - 2].i = evs[j].i - 1
                  /\ evs[j].op = "stop_event" =>
                        /\ j = Len(evs)
                        /\ \A i \in DOMAIN tasks[t].emoji_ids :
                              \E k \in 1..(j - 1) :
                                  evs[k].op = "returned" /\ evs[k].i = i
            /\ tasks[t].stopped <=> Calls(t, "stop_event") = 1

\* C16 witness: task t1 applied two different ids and called stop_event,
\* and task t2 made a call between the two calls of t1
C16_Witness ==
    /\ tasks["t1"].stopped
    /\ Len(tasks["t1"].emoji_ids) = 2
    /\ tasks["t1"].emoji_ids[1] # tasks["t1"].emoji_ids[2]
    /\ \E a, b, c \in DOMAIN bot :
          /\ a < b /\ b < c
          /\ bot[a] = BotEvent("t1", "set_msg_emoji_like", 1, tasks["t1"].emoji_ids[1])
          /\ bot[b].task = "t2" /\ bot[b].op = "set_msg_emoji_like"
          /\ bot[c] = BotEvent("t1", "set_msg_emoji_like", 2, tasks["t1"].emoji_ids[2])

\* C19: in every state that any interleaving of the handlers reaches,
\* emotions_mapping, emotion_keywords and emoji_pool hold what __init__ put
\* there.
C19_SharedStateReadOnly ==
    /\ emotions_mapping =
          parse_emotions_mapping_list(ConfigGet("emotions_mapping", <<>>))
    /\ emotion_keywords = [i \in DOMAIN emotions_mapping |-> emotions_mapping[i].key]
    /\ emoji_pool = EmojiPool

\* C19 witness: task t1 sleeps after a padded selection from the pool of a
\* label, task t2 awaits set_msg_emoji_like, and on_message has selected
C19_Witness ==
    /\ ConfigGet("emoji_select_strategy", "") = "emotion_llm"
    /\ tasks["t1"].pc = "sleep"
    /\ tasks["t1"].emotion = PyStr(<<KAI, XIN>>)
    /\ Len(tasks["t1"].emoji_ids) > Len(MappingGet(<<KAI, XIN>>))
    /\ tasks["t2"].pc = "set_msg_emoji_like"
    /\ Passive
    /\ selected # <<>>

=============================================================================
